---- MODULE Spec2Model ----
(***************************************************************************)
(* Model of const_utils: the naming rule is_const, the constant registry   *)
(* that ConstClassMeta keeps per class (_class_constant_cache), the read   *)
(* accessors (__getitem__, as_dict, const_names, const_values) and the     *)
(* two apply operations that copy a class's constants into a namespace.    *)
(*                                                                         *)
(* Names are sequences of one-character strings so that is_const is        *)
(* computed from the characters.  Attribute values are strings.  A Python  *)
(* set is modelled by the sequence of its elements in iteration order: the *)
(* order is arbitrary but fixed while the set is not modified.             *)
(***************************************************************************)
EXTENDS Integers, Sequences, FiniteSets, TLC

\* ------------------------------------------------------------------ bounds
MaxLen == 3          \* longest string handed to is_const directly
MaxClasses == 2      \* classes defined besides BaseConstClass
MaxSteps == 3        \* operations in one run
MaxDeepSteps == 4    \* operations in one run of the deeper specification

\* -------------------------------------------------------------- characters
UpperChars ==
    {"A","B","C","D","E","F","G","H","I","J","K","L","M",
     "N","O","P","Q","R","S","T","U","V","W","X","Y","Z"}
LowerChars ==
    {"a","b","c","d","e","f","g","h","i","j","k","l","m",
     "n","o","p","q","r","s","t","u","v","w","x","y","z"}
DigitChars == {"0","1","2","3","4","5","6","7","8","9"}
Underscore == "_"
\* Letters without case (Hebrew alef, a CJK ideograph): str.isidentifier
\* accepts them, str.isupper ignores them.
UncasedLetters == {"U+05D0", "U+4E2D"}
CasedLetters == UpperChars \cup LowerChars
LetterChars == CasedLetters \cup UncasedLetters

Range(s) == {s[i] : i \in DOMAIN s}

\* str.isidentifier: a letter or underscore, then letters, digits and
\* underscores; the empty string is not an identifier.
isidentifier(s) ==
    /\ Len(s) > 0
    /\ s[1] \in LetterChars \cup {Underscore}
    /\ \A i \in DOMAIN s : s[i] \in LetterChars \cup DigitChars \cup {Underscore}

\* str.isupper: at least one cased character and no lowercase one.
isupper(s) ==
    /\ \E i \in DOMAIN s : s[i] \in CasedLetters
    /\ \A i \in DOMAIN s : s[i] \notin LowerChars

startswith(s, prefix) ==
    /\ Len(s) >= Len(prefix)
    /\ SubSeq(s, 1, Len(prefix)) = prefix

is_const_no_underscore_check(name) == isidentifier(name) /\ isupper(name)

is_const(name) ==
    isidentifier(name) /\ isupper(name) /\ ~startswith(name, <<Underscore>>)

\* ------------------------------------------------------------------- names
PI == <<"P","I">>
E == <<"E">>
helper == <<"h","e","l","p","e","r">>
Names == {PI, E, helper}

\* Attributes every class inherits from object; dir() lists them too.
ObjectDir == {<<"_","_","d","o","c","_","_">>, <<"_","_","e","q","_","_">>}

Values == {"3.14159", "2.71828"}
Absent == "<absent>"
Slots == Values \cup {Absent}

\* Attributes of a dict object (what hasattr sees on a scope mapping).
DictDir == {<<"g","e","t">>, <<"k","e","y","s">>, <<"i","t","e","m","s">>,
            <<"p","o","p">>, <<"u","p","d","a","t","e">>,
            <<"v","a","l","u","e","s">>, <<"c","l","e","a","r">>,
            <<"c","o","p","y">>, <<"_","_","d","o","c","_","_">>}

ModuleNames == {"target_module", "no_such_module"}
ImportableAll == ModuleNames

Importable == {"target_module"}
FrameStates == {"ok", "no_current_frame", "no_caller_frame"}

\* Strings handed to is_const directly.
IsConstChars == {"A", "Z", "a", "1", "_", " ", "U+05D0"}
Strings == UNION {[1 .. n -> IsConstChars] : n \in 0 .. MaxLen}

ClassIds == 0 .. MaxClasses
BaseConstClass == 0
NoBase == 0 - 1

VARIABLES
    classes,               \* the classes created so far
    bases,                 \* class -> its base class, NoBase for object
    attrs,                 \* class -> own __dict__ (name -> value or Absent)
    class_constant_cache,  \* class -> registered names, in iteration order
    module_ns,             \* attributes of the importable target module
    f_globals,             \* the caller frame's globals
    f_locals,              \* the caller frame's locals
    last,                  \* the last operation and how it ended
    steps,                 \* operations performed so far
    name_arg,              \* argument of a direct is_const call
    is_const_result,       \* its result, "none" before the call
    access_result,         \* outcome of an access_namespace_consts call
    threads                \* two threads mutating one class: arguments, positions

registryVars == <<classes, bases, attrs, class_constant_cache>>
isConstVars == <<name_arg, is_const_result>>
nsVars == <<module_ns, f_globals, f_locals>>
accessVars == <<access_result>>
threadVars == <<threads>>
vars == <<classes, bases, attrs, class_constant_cache, module_ns, f_globals,
          f_locals, last, steps, name_arg, is_const_result, access_result,
          threads>>

\* ----------------------------------------------------------------- helpers
Perms(S) == {s \in [1 .. Cardinality(S) -> S] : Range(s) = S}

InsertAt(s, i, x) == SubSeq(s, 1, i - 1) \o <<x>> \o SubSeq(s, i, Len(s))

Remove(s, x) == SelectSeq(s, LAMBDA y : y # x)

EmptyDict == [n \in Names |-> Absent]

Op(op, cls, name, outcome) ==
    [op |-> op, cls |-> cls, name |-> name, outcome |-> outcome]

\* getattr(cls, name) along the MRO; Absent stands for AttributeError.
RECURSIVE getattr(_, _)
getattr(cls, name) ==
    IF cls = NoBase THEN Absent
    ELSE IF attrs[cls][name] # Absent THEN attrs[cls][name]
    ELSE getattr(bases[cls], name)

\* dir() of a class whose own dict is `body` and whose base is `base`, as
\* seen from the current state.
RECURSIVE dir(_)
dir(cls) ==
    IF cls = NoBase THEN ObjectDir
    ELSE {n \in Names : attrs[cls][n] # Absent} \cup dir(bases[cls])

dir_new_own_only(body, base) == {n \in Names : body[n] # Absent}

dir_new(body, base) == {n \in Names : body[n] # Absent} \cup dir(base)

\* --------------------------------------------------------- read accessors
Result(kind, value, names) == [kind |-> kind, value |-> value, names |-> names]

\* ConstClassMeta.__getitem__: the value, or ValueError carrying the
\* registered names joined into the message.
getitem(cls, item) ==
    LET class_constants == class_constant_cache[cls] IN
    IF item \in Range(class_constants)
    THEN IF getattr(cls, item) # Absent
         THEN Result("return", getattr(cls, item), <<>>)
         ELSE Result("AttributeError", Absent, <<>>)
    ELSE Result("ValueError", Absent, class_constants)

\* ConstClassMeta.as_dict: (name, value) pairs in the iteration order of
\* the registered set; getattr raising ends the comprehension.
as_dict(cls) ==
    LET class_constants == class_constant_cache[cls] IN
    IF \E i \in DOMAIN class_constants : getattr(cls, class_constants[i]) = Absent
    THEN [kind |-> "AttributeError", items |-> <<>>]
    ELSE [kind |-> "return",
          items |-> [i \in DOMAIN class_constants |->
                        [name |-> class_constants[i],
                         value |-> getattr(cls, class_constants[i])]]]

const_names(cls) ==
    LET d == as_dict(cls) IN
    [kind |-> d.kind, list |-> [i \in DOMAIN d.items |-> d.items[i].name]]

const_values_reversed(cls) ==
    LET d == as_dict(cls) IN
    [kind |-> d.kind,
     list |-> [i \in DOMAIN d.items |-> d.items[Len(d.items) + 1 - i].value]]

const_values(cls) ==
    LET d == as_dict(cls) IN
    [kind |-> d.kind, list |-> [i \in DOMAIN d.items |-> d.items[i].value]]

\* ------------------------------------------------------------------ apply
\* hasattr(namespace, name): a module is asked for its attribute, a scope
\* mapping (a dict) for an attribute of the dict object.
hasattr(mode, namespace, name) ==
    IF mode = "module" THEN namespace[name] # Absent ELSE name \in DictDir

\* ConstClassMeta.__apply over the names still to visit: the namespace as
\* it is when the loop ends, and how the loop ended.
RECURSIVE apply_loop(_, _, _, _, _)
apply_loop(cls, todo, namespace, override, mode) ==
    IF todo = <<>> THEN [ns |-> namespace, outcome |-> "ok"]
    ELSE LET name == Head(todo)
             value == getattr(cls, name)
         IN IF value = Absent
            THEN [ns |-> namespace, outcome |-> "AttributeError"]
            ELSE IF ~override /\ hasattr(mode, namespace, name)
            THEN apply_loop(cls, Tail(todo), namespace, override, mode)
            ELSE apply_loop(cls, Tail(todo),
                            [namespace EXCEPT ![name] = value], override, mode)

\* ------------------------------------------------------------------- Init
\* Class bodies: an empty class, the constant-and-helper class, two constants.
ClassBodies ==
    {EmptyDict,
     [EmptyDict EXCEPT ![PI] = "3.14159", ![helper] = "<function>"],
     [EmptyDict EXCEPT ![PI] = "3.14159", ![E] = "2.71828"]}

\* The target module and the caller's globals already define PI = 0; the
\* caller's locals define nothing.
HasPI == [EmptyDict EXCEPT ![PI] = "0"]

\* No access_namespace_consts call made, no thread started.
NoAccess == [kind |-> "none", local |-> FALSE, dict |-> EmptyDict]

NoThreads ==
    [cls |-> NoBase, name |-> <<>>, value |-> Absent,
     set_pc |-> "idle", del_pc |-> "idle", overlapped |-> FALSE]

InitRegistry ==
    /\ classes = {BaseConstClass}
    /\ bases = [c \in ClassIds |-> NoBase]
    /\ attrs = [c \in ClassIds |-> EmptyDict]
    /\ class_constant_cache = [c \in ClassIds |-> <<>>]
    /\ last = Op("import", BaseConstClass, <<>>, "ok")
    /\ steps = 0

Init ==
    /\ InitRegistry
    /\ module_ns = HasPI
    /\ f_globals = HasPI
    /\ f_locals = EmptyDict
    /\ name_arg = <<>>
    /\ is_const_result = "none"
    /\ access_result = NoAccess
    /\ threads = NoThreads

\* ---------------------------------------------------------------- actions
Step == steps' = steps + 1

\* ConstClassMeta.__new__: create the class, then register the constant
\* names among dir(const_class).
New(c, base, body) ==
    /\ Step
    /\ c \notin classes
    /\ c = Cardinality(classes)
    /\ base \in classes \cup {NoBase}
    /\ classes' = classes \cup {c}
    /\ bases' = [bases EXCEPT ![c] = base]
    /\ attrs' = [attrs EXCEPT ![c] = body]
    /\ \E constants \in Perms({name \in dir_new(body, base) : is_const(name)}) :
          class_constant_cache' = [class_constant_cache EXCEPT ![c] = constants]
    /\ last' = Op("new", c, <<>>, "ok")
    /\ UNCHANGED <<nsVars, isConstVars, accessVars, threadVars>>

\* The registered set after class_constants.add(name).
cache_add_nothing(class_constants, name) == {class_constants}

cache_add(class_constants, name) ==
    {InsertAt(class_constants, i, name) : i \in 1 .. Len(class_constants) + 1}

\* __setattr__ with one registered set shared by all the classes.
SetAttrSharedSet(cls, name, value) ==
    /\ Step
    /\ cls \in classes
    /\ attrs' = [attrs EXCEPT ![cls][name] = value]
    /\ IF is_const(name)
       THEN class_constant_cache' =
               [c \in ClassIds |->
                  IF c \in classes /\ name \notin Range(class_constant_cache[c])
                  THEN Append(class_constant_cache[c], name)
                  ELSE class_constant_cache[c]]
       ELSE UNCHANGED class_constant_cache
    /\ last' = Op("setattr", cls, name, "ok")
    /\ UNCHANGED <<classes, bases, nsVars, isConstVars, accessVars, threadVars>>

\* __setattr__ that registers the name without asking is_const.
SetAttrAnyName(cls, name, value) ==
    /\ Step
    /\ cls \in classes
    /\ attrs' = [attrs EXCEPT ![cls][name] = value]
    /\ LET class_constants == class_constant_cache[cls] IN
         IF name \notin Range(class_constants)
         THEN \E added \in cache_add(class_constants, name) :
                 class_constant_cache' =
                    [class_constant_cache EXCEPT ![cls] = added]
         ELSE UNCHANGED class_constant_cache
    /\ last' = Op("setattr", cls, name, "ok")
    /\ UNCHANGED <<classes, bases, nsVars, isConstVars, accessVars, threadVars>>

\* ConstClassMeta.__setattr__
SetAttr(cls, name, value) ==
    /\ Step
    /\ cls \in classes
    /\ attrs' = [attrs EXCEPT ![cls][name] = value]
    /\ LET class_constants == class_constant_cache[cls] IN
         IF is_const(name) /\ name \notin Range(class_constants)
         THEN \E added \in cache_add(class_constants, name) :
                 class_constant_cache' =
                    [class_constant_cache EXCEPT ![cls] = added]
         ELSE UNCHANGED class_constant_cache
    /\ last' = Op("setattr", cls, name, "ok")
    /\ UNCHANGED <<classes, bases, nsVars, isConstVars, accessVars, threadVars>>

\* The registered set after class_constants.remove(name).
cache_remove_nothing(class_constants, name) == class_constants

cache_remove(class_constants, name) == Remove(class_constants, name)

\* __delattr__ that updates the registered set before type.__delattr__.
DelAttrCacheFirst(cls, name) ==
    /\ Step
    /\ cls \in classes
    /\ LET class_constants == class_constant_cache[cls] IN
         class_constant_cache' =
            [class_constant_cache EXCEPT
                ![cls] = IF name \in Range(class_constants)
                         THEN cache_remove(class_constants, name)
                         ELSE class_constants]
    /\ IF attrs[cls][name] = Absent
       THEN /\ last' = Op("delattr", cls, name, "AttributeError")
            /\ UNCHANGED attrs
       ELSE /\ attrs' = [attrs EXCEPT ![cls][name] = Absent]
            /\ last' = Op("delattr", cls, name, "ok")
    /\ UNCHANGED <<classes, bases, nsVars, isConstVars, accessVars, threadVars>>

\* ConstClassMeta.__delattr__: type.__delattr__ raises AttributeError when
\* the name is not in the class's own __dict__, before the cache is read.
DelAttr(cls, name) ==
    /\ Step
    /\ cls \in classes
    /\ IF attrs[cls][name] = Absent
       THEN /\ last' = Op("delattr", cls, name, "AttributeError")
            /\ UNCHANGED <<attrs, class_constant_cache>>
       ELSE /\ attrs' = [attrs EXCEPT ![cls][name] = Absent]
            /\ LET class_constants == class_constant_cache[cls] IN
                 class_constant_cache' =
                    [class_constant_cache EXCEPT
                        ![cls] = IF name \in Range(class_constants)
                                 THEN cache_remove(class_constants, name)
                                 ELSE class_constants]
            /\ last' = Op("delattr", cls, name, "ok")
    /\ UNCHANGED <<classes, bases, nsVars, isConstVars, accessVars, threadVars>>

\* ConstClassMeta.apply_to_module
ApplyToModule(cls, module_name, override) ==
    /\ Step
    /\ cls \in classes
    /\ IF module_name \notin Importable
       THEN /\ last' = Op("apply_to_module", cls, <<>>, "ImportError")
            /\ UNCHANGED module_ns
       ELSE LET r == apply_loop(cls, class_constant_cache[cls], module_ns,
                                override, "module")
            IN /\ module_ns' = r.ns
               /\ last' = Op("apply_to_module", cls, <<>>, r.outcome)
    /\ UNCHANGED <<registryVars, f_globals, f_locals, isConstVars, accessVars, threadVars>>

\* apply that empties the registered set while it copies.
ApplyConsumingCache(cls, local, override, frame) ==
    /\ Step
    /\ cls \in classes
    /\ frame = "ok"
    /\ LET namespace == IF local THEN f_locals ELSE f_globals
           r == apply_loop(cls, class_constant_cache[cls], namespace,
                           override, "scope")
       IN /\ IF local
             THEN f_locals' = r.ns /\ UNCHANGED f_globals
             ELSE f_globals' = r.ns /\ UNCHANGED f_locals
          /\ last' = Op("apply", cls, <<>>, r.outcome)
    /\ class_constant_cache' = [class_constant_cache EXCEPT ![cls] = <<>>]
    /\ UNCHANGED <<classes, bases, attrs, module_ns, isConstVars, accessVars,
                   threadVars>>

\* ConstClassMeta.apply
Apply(cls, local, override, frame) ==
    /\ Step
    /\ cls \in classes
    /\ IF frame = "no_current_frame"
       THEN /\ last' = Op("apply", cls, <<>>, "RuntimeError")
            /\ UNCHANGED <<f_globals, f_locals>>
       ELSE IF frame = "no_caller_frame"
       THEN /\ last' = Op("apply", cls, <<>>, "AttributeError")
            /\ UNCHANGED <<f_globals, f_locals>>
       ELSE LET namespace == IF local THEN f_locals ELSE f_globals
                r == apply_loop(cls, class_constant_cache[cls], namespace,
                                override, "scope")
            IN /\ IF local
                  THEN f_locals' = r.ns /\ UNCHANGED f_globals
                  ELSE f_globals' = r.ns /\ UNCHANGED f_locals
               /\ last' = Op("apply", cls, <<>>, r.outcome)
    /\ UNCHANGED <<registryVars, module_ns, isConstVars, accessVars, threadVars>>

\* Any one operation, while fewer than `limit` operations have been called.
Operation(limit) ==
    \/ \E c \in ClassIds, base \in ClassIds \cup {NoBase}, body \in ClassBodies :
          steps < limit /\ New(c, base, body)
    \/ \E cls \in ClassIds, name \in Names, value \in Values :
          steps < limit /\ SetAttr(cls, name, value)
    \/ \E cls \in ClassIds, name \in Names :
          steps < limit /\ DelAttr(cls, name)
    \/ \E cls \in ClassIds, module_name \in ModuleNames, override \in BOOLEAN :
          steps < limit /\ ApplyToModule(cls, module_name, override)
    \/ \E cls \in ClassIds, local \in BOOLEAN, override \in BOOLEAN,
          frame \in FrameStates :
          steps < limit /\ Apply(cls, local, override, frame)

Next == Operation(MaxSteps)

Spec == Init /\ [][Next]_vars

\* The same program, followed for one operation more.
NextDeep == Operation(MaxDeepSteps)

SpecDeep == Init /\ [][NextDeep]_vars

\* ------------------------------------------- is_const called on its own
InitIsConst ==
    /\ InitRegistry
    /\ module_ns = EmptyDict
    /\ f_globals = EmptyDict
    /\ f_locals = EmptyDict
    /\ name_arg \in Strings
    /\ is_const_result = "none"
    /\ access_result = NoAccess
    /\ threads = NoThreads

CallIsConst ==
    /\ is_const_result = "none"
    /\ is_const_result' = IF is_const(name_arg) THEN "True" ELSE "False"
    /\ UNCHANGED <<registryVars, nsVars, last, steps, name_arg, accessVars,
                   threadVars>>

NextIsConst == CallIsConst

SpecIsConst == InitIsConst /\ [][NextIsConst]_vars

\* ------------------------------- access_namespace_consts called on its own
\* utility_funcs.is_const, the module's own copy of the naming rule.
utility_funcs_is_const(name) ==
    isidentifier(name) /\ isupper(name) /\ ~startswith(name, <<Underscore>>)

access_namespace_consts_unfiltered(namespace) == namespace

\* The dict comprehension over namespace.items(); Absent marks a name that
\* is not a key of the result.
access_namespace_consts(namespace) ==
    [name \in Names |->
        IF utility_funcs_is_const(name) THEN namespace[name] ELSE Absent]

\* What a caller's namespace may hold.
Namespaces == [Names -> {Absent, "0", "3.14159"}]

InitAccess ==
    /\ InitRegistry
    /\ module_ns = EmptyDict
    /\ f_globals \in Namespaces
    /\ f_locals \in Namespaces
    /\ name_arg = <<>>
    /\ is_const_result = "none"
    /\ access_result = NoAccess
    /\ threads = NoThreads

AccessNamespaceConsts(local, frame) ==
    /\ access_result.kind = "none"
    /\ access_result' =
          IF frame = "no_current_frame"
          THEN [kind |-> "RuntimeError", local |-> local, dict |-> EmptyDict]
          ELSE IF frame = "no_caller_frame"
          THEN [kind |-> "AttributeError", local |-> local, dict |-> EmptyDict]
          ELSE [kind |-> "return", local |-> local,
                dict |-> access_namespace_consts(
                            IF local THEN f_locals ELSE f_globals)]
    /\ UNCHANGED <<registryVars, nsVars, last, steps, isConstVars, threadVars>>

NextAccess ==
    \E local \in BOOLEAN, frame \in FrameStates :
       AccessNamespaceConsts(local, frame)

SpecAccess == InitAccess /\ [][NextAccess]_vars

\* ------------------ one thread in __setattr__, another in __delattr__
\* Both threads are given the same class and the same name.  The
\* interpreter may switch threads between any two calls of a hook, so each
\* hook is followed call by call: the type.__setattr__ / type.__delattr__
\* call, the membership test, the set.add / set.remove call.
T_Start(cls, name, value) ==
    /\ threads.set_pc = "idle"
    /\ cls \in classes \ {BaseConstClass}
    /\ threads' = [cls |-> cls, name |-> name, value |-> value,
                   set_pc |-> "setattr", del_pc |-> "delattr",
                   overlapped |-> FALSE]
    /\ UNCHANGED <<registryVars, nsVars, last, steps, isConstVars, accessVars>>

\* A thread has entered its hook and has not left it.
InHook(pc) == pc \in {"check", "add", "remove"}

\* The thread record after the setting thread moves to `pc`.
SetThreadAt(pc) ==
    [threads EXCEPT !.set_pc = pc,
                    !.overlapped = @ \/ InHook(threads.del_pc)]

\* The thread record after the deleting thread moves to `pc`.
DelThreadAt(pc) ==
    [threads EXCEPT !.del_pc = pc,
                    !.overlapped = @ \/ InHook(threads.set_pc)]

\* __setattr__: super().__setattr__(name, value)
T_SetAttr ==
    /\ threads.set_pc = "setattr"
    /\ attrs' = [attrs EXCEPT ![threads.cls][threads.name] = threads.value]
    /\ threads' = SetThreadAt("check")
    /\ UNCHANGED <<classes, bases, class_constant_cache, nsVars, last, steps,
                   isConstVars, accessVars>>

\* __setattr__: if is_const(name) and name not in class_constants
T_SetCheck ==
    /\ threads.set_pc = "check"
    /\ threads' =
          SetThreadAt(IF /\ is_const(threads.name)
                         /\ threads.name \notin
                               Range(class_constant_cache[threads.cls])
                      THEN "add" ELSE "done")
    /\ UNCHANGED <<registryVars, nsVars, last, steps, isConstVars, accessVars>>

\* __setattr__: class_constants.add(name)
T_SetAdd ==
    /\ threads.set_pc = "add"
    /\ LET class_constants == class_constant_cache[threads.cls] IN
         IF threads.name \in Range(class_constants)
         THEN UNCHANGED class_constant_cache
         ELSE \E added \in cache_add(class_constants, threads.name) :
                 class_constant_cache' =
                    [class_constant_cache EXCEPT ![threads.cls] = added]
    /\ threads' = SetThreadAt("done")
    /\ UNCHANGED <<classes, bases, attrs, nsVars, last, steps, isConstVars,
                   accessVars>>

\* __delattr__: super().__delattr__(name), which raises AttributeError when
\* the class's own __dict__ does not hold the name.
T_DelAttr ==
    /\ threads.del_pc = "delattr"
    /\ IF attrs[threads.cls][threads.name] = Absent
       THEN /\ threads' = DelThreadAt("raised")
            /\ UNCHANGED attrs
       ELSE /\ attrs' = [attrs EXCEPT ![threads.cls][threads.name] = Absent]
            /\ threads' = DelThreadAt("check")
    /\ UNCHANGED <<classes, bases, class_constant_cache, nsVars, last, steps,
                   isConstVars, accessVars>>

\* __delattr__: if name in class_constants
T_DelCheck ==
    /\ threads.del_pc = "check"
    /\ threads' =
          DelThreadAt(IF threads.name \in
                           Range(class_constant_cache[threads.cls])
                      THEN "remove" ELSE "done")
    /\ UNCHANGED <<registryVars, nsVars, last, steps, isConstVars, accessVars>>

\* __delattr__ whose class_constants.remove(name) removes nothing.
T_DelRemoveNothing ==
    /\ threads.del_pc = "remove"
    /\ threads' = DelThreadAt("done")
    /\ UNCHANGED <<registryVars, nsVars, last, steps, isConstVars, accessVars>>

\* __delattr__: class_constants.remove(name), a KeyError when the name is
\* not in the set.
T_DelRemove ==
    /\ threads.del_pc = "remove"
    /\ LET class_constants == class_constant_cache[threads.cls] IN
         IF threads.name \in Range(class_constants)
         THEN /\ class_constant_cache' =
                    [class_constant_cache EXCEPT
                        ![threads.cls] =
                           cache_remove(class_constants, threads.name)]
              /\ threads' = DelThreadAt("done")
         ELSE /\ threads' = DelThreadAt("raised")
              /\ UNCHANGED class_constant_cache
    /\ UNCHANGED <<classes, bases, attrs, nsVars, last, steps, isConstVars,
                   accessVars>>

\* One class is defined, then the two threads run in any interleaving.
NextThreads ==
    \/ \E c \in ClassIds, body \in ClassBodies :
          classes = {BaseConstClass} /\ New(c, BaseConstClass, body)
    \/ \E cls \in ClassIds, name \in Names, value \in Values :
          T_Start(cls, name, value)
    \/ T_SetAttr
    \/ T_SetCheck
    \/ T_SetAdd
    \/ T_DelAttr
    \/ T_DelCheck
    \/ T_DelRemove

SpecThreads == Init /\ [][NextThreads]_vars

\* ================================================================ claims
Registered(cls) == Range(class_constant_cache[cls])

NoDuplicates(s) == \A i, j \in DOMAIN s : s[i] = s[j] => i = j

\* The constant names visible on a class, own or inherited.
VisibleConstants(cls) == {n \in dir(cls) : is_const(n)}

\* C1: after any sequence of class definitions, attribute sets and attribute
\* deletes, the registry entry of every class equals exactly the set of
\* is_const names currently visible on that class (own or inherited).
C1_RegistryIsCurrent ==
    \A cls \in classes : Registered(cls) = VisibleConstants(cls)

\* C2: lookup cls[name] has exactly two outcomes: a registered name returns
\* the class's live value, any other name fails with ValueError whose
\* message lists exactly the registered names; no other error is produced.
C2_LookupHasTwoOutcomes ==
    \A cls \in classes, name \in Names :
        LET r == getitem(cls, name) IN
        IF name \in Registered(cls)
        THEN r.kind = "return" /\ r.value # Absent /\ r.value = getattr(cls, name)
        ELSE r.kind = "ValueError" /\ Range(r.names) = Registered(cls)

\* C3: scope-mode apply honours override through an existence check on the
\* scope: with override=False every key already in the scope keeps its value
\* and only missing constant names are written; with override=True every
\* registered name ends up bound to the class's live value.
C3_ScopeApplyHonoursOverride ==
    [][\A cls \in ClassIds, local \in BOOLEAN, override \in BOOLEAN :
          Apply(cls, local, override, "ok") =>
             LET before == IF local THEN f_locals ELSE f_globals
                 after == IF local THEN f_locals' ELSE f_globals'
             IN IF override
                THEN \A n \in Registered(cls) :
                        getattr(cls, n) # Absent /\ after[n] = getattr(cls, n)
                ELSE \A n \in Names :
                        /\ before[n] # Absent => after[n] = before[n]
                        /\ (before[n] = Absent /\ n \in Registered(cls)) =>
                              (getattr(cls, n) # Absent /\ after[n] = getattr(cls, n))
      ]_vars

\* C4: module-mode apply: for every registered name, the module attribute
\* is left unchanged when override is false and the module already has it,
\* and is otherwise set to the class's live value; module attributes that
\* are not registered constants of the class never change.
C4_ModuleApplyPerName ==
    [][\A cls \in ClassIds, override \in BOOLEAN :
          ApplyToModule(cls, "target_module", override) =>
             \A n \in Names :
                IF n \notin Registered(cls) THEN module_ns'[n] = module_ns[n]
                ELSE IF ~override /\ module_ns[n] # Absent
                THEN module_ns'[n] = module_ns[n]
                ELSE getattr(cls, n) # Absent /\ module_ns'[n] = getattr(cls, n)
      ]_vars
\* C5: a successful delete of a registered constant name removes the
\* attribute and the name from the registered set: the name is then not
\* listed by const_names and lookup of it fails with ValueError; the name
\* comes back into the set of an existing class only by setting it again.
C5_DeleteUnregisters ==
    [][/\ \A cls \in ClassIds, name \in Names :
            (DelAttr(cls, name) /\ attrs[cls][name] # Absent
                                /\ name \in Registered(cls)) =>
               /\ attrs'[cls][name] = Absent
               /\ name \notin Registered(cls)'
               /\ name \notin Range(const_names(cls).list)'
               /\ getitem(cls, name)' =
                     Result("ValueError", Absent, class_constant_cache'[cls])
       /\ \A cls \in classes, name \in Names :
            (name \notin Registered(cls) /\ name \in Registered(cls)') =>
               last' = Op("setattr", cls, name, "ok")
      ]_vars

C5_Witness ==
    /\ last.op = "delattr" /\ last.outcome = "ok"
    /\ is_const(last.name)
    /\ Registered(last.cls) # {}
    /\ last.name \notin Registered(last.cls)
    /\ getitem(last.cls, last.name).kind = "ValueError"

\* C6: after setting an attribute on a class: a name satisfying is_const is
\* in the registered set, is listed by const_names, and lookup returns the
\* value just assigned; for any other name the registered set is unchanged
\* and lookup of the name fails with ValueError.
C6_SetRegisters ==
    [][\A cls \in ClassIds, name \in Names, value \in Values :
          SetAttr(cls, name, value) =>
             IF is_const(name)
             THEN /\ name \in Registered(cls)'
                  /\ const_names(cls).kind' = "return"
                  /\ name \in Range(const_names(cls).list)'
                  /\ getitem(cls, name)' = Result("return", value, <<>>)
             ELSE /\ class_constant_cache'[cls] = class_constant_cache[cls]
                  /\ getitem(cls, name).kind' = "ValueError"
      ]_vars

\* C7: re-assigning an already-registered constant name leaves the
\* registered set unchanged, and every later as_dict() call and lookup
\* returns, for each registered name, the live value of the attribute.
C7_ValuesReadLive ==
    [][\A cls \in ClassIds, name \in Names, value \in Values :
          (SetAttr(cls, name, value) /\ name \in Registered(cls)) =>
             /\ class_constant_cache'[cls] = class_constant_cache[cls]
             /\ as_dict(cls).kind' = "return"
             /\ \A i \in DOMAIN class_constant_cache[cls] :
                   LET item == as_dict(cls).items[i] IN
                   /\ item.value' = getattr(cls, item.name)'
                   /\ item.name' = name => item.value' = value
                   /\ getitem(cls, class_constant_cache[cls][i])' =
                         Result("return", item.value', <<>>)
      ]_vars

\* C8: right after a class is defined its registry entry is exactly the
\* is_const subset of the attribute names visible on it (own and inherited);
\* a class defined with PI = 3.14159 and helper = <function> has
\* const_names == [PI], lookup of PI returns 3.14159 and lookup of helper
\* fails with ValueError.
C8_CreatedRegistry ==
    last.op = "new" =>
       LET cls == last.cls IN
       /\ Registered(cls) = VisibleConstants(cls)
       /\ NoDuplicates(class_constant_cache[cls])
       /\ \A name \in Names :
             getitem(cls, name) =
                IF is_const(name) /\ getattr(cls, name) # Absent
                THEN Result("return", getattr(cls, name), <<>>)
                ELSE Result("ValueError", Absent, class_constant_cache[cls])
       /\ (bases[cls] = NoBase /\ attrs[cls] =
              [EmptyDict EXCEPT ![PI] = "3.14159", ![helper] = "<function>"]) =>
             /\ const_names(cls) = [kind |-> "return", list |-> <<PI>>]
             /\ getitem(cls, PI) = Result("return", "3.14159", <<>>)
             /\ getitem(cls, helper) = Result("ValueError", Absent, <<PI>>)

C8_Witness ==
    /\ last.op = "new"
    /\ bases[last.cls] # NoBase
    /\ attrs[last.cls][helper] # Absent
    /\ attrs[last.cls][E] = Absent
    /\ Registered(last.cls) = {PI, E}

\* C9 as claimed: is_const(name) always answers, and answers true exactly
\* when name is a valid identifier, every letter in it is uppercase and it
\* does not start with an underscore; identifiers made of uppercase ASCII
\* letters and digits only give true, names starting with an underscore give
\* false, and strings that are no identifier give false.
EveryLetterUppercase(s) ==
    \A i \in DOMAIN s : s[i] \in LetterChars => s[i] \in UpperChars

IsConstParticulars ==
    /\ is_const_result \in {"True", "False"}
    /\ (/\ Len(name_arg) > 0
        /\ name_arg[1] \in UpperChars
        /\ \A i \in DOMAIN name_arg : name_arg[i] \in UpperChars \cup DigitChars)
          => is_const_result = "True"
    /\ (Len(name_arg) > 0 /\ name_arg[1] = Underscore) => is_const_result = "False"
    /\ (\/ name_arg = <<>>
        \/ \E i \in DOMAIN name_arg : name_arg[i] = " "
        \/ name_arg[1] \in DigitChars) => is_const_result = "False"

C9_IsConstRuleAsClaimed ==
    is_const_result # "none" =>
       /\ (is_const_result = "True") <=>
             (/\ isidentifier(name_arg)
              /\ EveryLetterUppercase(name_arg)
              /\ name_arg[1] # Underscore)
       /\ IsConstParticulars

\* C9 as amended: is_const(name) always answers, and answers true exactly
\* when name is a valid identifier, has at least one cased letter, every
\* cased letter in it is uppercase and it does not start with an underscore
\* (letters without case are ignored); the three particular cases as claimed.
C9_IsConstRule ==
    is_const_result # "none" =>
       /\ (is_const_result = "True") <=>
             (/\ isidentifier(name_arg)
              /\ \E i \in DOMAIN name_arg : name_arg[i] \in CasedLetters
              /\ \A i \in DOMAIN name_arg :
                    name_arg[i] \in CasedLetters => name_arg[i] \in UpperChars
              /\ name_arg[1] # Underscore)
       /\ IsConstParticulars

C9_Witness ==
    /\ is_const_result = "True"
    /\ \E i \in DOMAIN name_arg : name_arg[i] \in UncasedLetters
    /\ \E i \in DOMAIN name_arg : name_arg[i] \in DigitChars

\* C10: whenever const_names and const_values can be computed they agree
\* with each other and with the registry: both are as long as the registered
\* set, const_names lists each registered name exactly once, and
\* const_values[i] is the live value of attribute const_names[i].
C10_NamesValuesConsistent ==
    \A cls \in classes :
       LET names == const_names(cls)
           values == const_values(cls)
       IN (names.kind = "return" /\ values.kind = "return") =>
             /\ Len(names.list) = Cardinality(Registered(cls))
             /\ Len(values.list) = Cardinality(Registered(cls))
             /\ Range(names.list) = Registered(cls)
             /\ NoDuplicates(names.list)
             /\ \A i \in DOMAIN names.list :
                   /\ values.list[i] # Absent
                   /\ values.list[i] = getattr(cls, names.list[i])

C10_Witness ==
    \E cls \in classes :
       /\ const_names(cls).kind = "return"
       /\ Len(const_names(cls).list) = 2
       /\ const_values(cls).list[1] # const_values(cls).list[2]
       /\ bases[cls] # NoBase
       /\ \E n \in Registered(cls) : attrs[cls][n] = Absent

\* C11: apply and apply_to_module mutate only the target namespace: whether
\* the call succeeds or fails, no class attribute, base or registry entry
\* changes, and no namespace other than the one addressed changes.
C11_ApplyTouchesOnlyTarget ==
    [][/\ last'.op \in {"apply", "apply_to_module"} =>
             UNCHANGED <<classes, bases, attrs, class_constant_cache>>
       /\ last'.op = "apply" =>
             /\ module_ns' = module_ns
             /\ \A local \in BOOLEAN, override \in BOOLEAN, frame \in FrameStates :
                   Apply(last'.cls, local, override, frame) =>
                      /\ local => f_globals' = f_globals
                      /\ ~local => f_locals' = f_locals
       /\ last'.op = "apply_to_module" => UNCHANGED <<f_globals, f_locals>>
      ]_vars

C11_Witness ==
    /\ last.op = "apply"
    /\ last.outcome = "ok"
    /\ f_locals[PI] = "3.14159"
    /\ f_locals[E] = "2.71828"
    /\ getattr(last.cls, PI) = "3.14159"
    /\ Registered(last.cls) = {PI, E}

\* C12: when the calling scope cannot be determined (no current frame, or
\* no caller frame), apply fails with RuntimeError and writes nothing to any
\* namespace.
C12_NoFrameIsRuntimeError ==
    [][\A cls \in ClassIds, local \in BOOLEAN, override \in BOOLEAN,
          frame \in FrameStates \ {"ok"} :
          Apply(cls, local, override, frame) =>
             /\ last' = Op("apply", cls, <<>>, "RuntimeError")
             /\ UNCHANGED <<module_ns, f_globals, f_locals>>
      ]_vars

\* C13: apply_to_module with a module name that cannot be imported raises
\* the import error, and then no namespace, class attribute or registry
\* entry is modified.
C13_ImportFailurePropagates ==
    [][\A cls \in ClassIds, override \in BOOLEAN :
          ApplyToModule(cls, "no_such_module", override) =>
             /\ last' = Op("apply_to_module", cls, <<>>, "ImportError")
             /\ UNCHANGED <<classes, bases, attrs, class_constant_cache,
                            module_ns, f_globals, f_locals>>
      ]_vars

C13_Witness ==
    /\ last.op = "apply_to_module"
    /\ last.outcome = "ImportError"
    /\ Registered(last.cls) = {PI, E}
    /\ module_ns = HasPI

\* C14: access_namespace_consts(local), called with a caller frame, returns
\* a mapping holding exactly the entries of the caller's namespace (locals
\* if local, globals otherwise) whose names satisfy is_const, each with the
\* namespace's current value, and leaves every namespace unchanged.
C14_AccessReturnsConstants ==
    [][\A local \in BOOLEAN :
          AccessNamespaceConsts(local, "ok") =>
             LET namespace == IF local THEN f_locals ELSE f_globals IN
             /\ access_result'.kind = "return"
             /\ \A name \in Names :
                   access_result'.dict[name] =
                      IF is_const(name) THEN namespace[name] ELSE Absent
             /\ UNCHANGED <<module_ns, f_globals, f_locals>>
      ]_vars

C14_Witness ==
    /\ access_result.kind = "return"
    /\ access_result.local
    /\ f_locals[helper] = "0"
    /\ f_locals[PI] = "3.14159"
    /\ f_locals[E] = Absent
    /\ f_globals[E] = "0"
    /\ access_result.dict = [EmptyDict EXCEPT ![PI] = "3.14159"]

\* C15: every apply / apply_to_module call is all-or-nothing: it either
\* succeeds, after which every registered constant is bound in the target,
\* or fails with every namespace unchanged; it never fails after having
\* written some of the constants.
C15_ApplyAllOrNothing ==
    [][/\ \A cls \in ClassIds, local \in BOOLEAN, override \in BOOLEAN,
             frame \in FrameStates :
             Apply(cls, local, override, frame) =>
                IF last'.outcome = "ok"
                THEN \A n \in Registered(cls) :
                        (IF local THEN f_locals' ELSE f_globals')[n] # Absent
                ELSE UNCHANGED <<module_ns, f_globals, f_locals>>
       /\ \A cls \in ClassIds, module_name \in ModuleNames, override \in BOOLEAN :
             ApplyToModule(cls, module_name, override) =>
                IF last'.outcome = "ok"
                THEN \A n \in Registered(cls) : module_ns'[n] # Absent
                ELSE UNCHANGED <<module_ns, f_globals, f_locals>>
      ]_vars


\* C16: registry entries are per class: an attribute-set or attribute-delete
\* on one class changes at most that class's own entry and leaves the entry
\* of every other class (a base or a subclass included) as it was.
C16_SetDeleteTouchOneEntry ==
    [][\A cls \in ClassIds, name \in Names :
          (\/ \E value \in Values : SetAttr(cls, name, value)
           \/ DelAttr(cls, name)) =>
             \A other \in ClassIds \ {cls} :
                class_constant_cache'[other] = class_constant_cache[other]
      ]_vars

\* A constant was set on a class that has a subclass; the class's own entry
\* holds the name and the subclass's entry does not.
C16_Witness ==
    /\ last.op = "setattr"
    /\ is_const(last.name)
    /\ last.name \in Registered(last.cls)
    /\ \E other \in classes :
          /\ bases[other] = last.cls
          /\ last.name \notin Registered(other)
          /\ Registered(other) # {}


\* C18: a failed attribute deletion leaves all state unchanged: deleting a
\* name that the class's own attributes do not define (absent entirely, or
\* only inherited from a base) raises AttributeError, and the class
\* attributes and every registered set are as they were before the call.
C18_FailedDeleteChangesNothing ==
    [][\A cls \in ClassIds, name \in Names :
          (DelAttr(cls, name) /\ attrs[cls][name] = Absent) =>
             /\ last' = Op("delattr", cls, name, "AttributeError")
             /\ UNCHANGED <<classes, bases, attrs, class_constant_cache, nsVars>>
      ]_vars

\* A delete failed on a name that the class only inherits and that its
\* registered set holds.
C18_Witness ==
    /\ last.op = "delattr"
    /\ last.outcome = "AttributeError"
    /\ attrs[last.cls][last.name] = Absent
    /\ getattr(last.cls, last.name) # Absent
    /\ last.name \in Registered(last.cls)

\* C19: in every reachable state, every name in any class's registered set
\* satisfies is_const, whatever classes were defined and whatever attributes
\* were set and deleted.
C19_RegisteredNamesAreConstants ==
    \A cls \in ClassIds : \A name \in Registered(cls) : is_const(name)

\* A non-constant name was set on a class that has registered constants,
\* and was not registered.
C19_Witness ==
    /\ last.op = "setattr"
    /\ last.name = helper
    /\ getattr(last.cls, helper) \in Values
    /\ Registered(last.cls) # {}
    /\ helper \notin Registered(last.cls)


\* Both threads have left their hooks.
ThreadsFinished ==
    /\ threads.set_pc = "done"
    /\ threads.del_pc \in {"done", "raised"}

\* The registered set and the class's attributes disagree on the name.
RegistryDisagrees ==
    (threads.name \in Registered(threads.cls))
       # (getattr(threads.cls, threads.name) # Absent)

\* C17: attribute-set and attribute-delete are each two steps (mutate the
\* class, then update the set), so a set and a delete of the same constant
\* name from two unsynchronized threads can interleave and leave the
\* registered set disagreeing with the class's attributes; the disagreement
\* comes from the interleaving alone: when one thread runs wholly before
\* the other, the set and the attributes agree.
C17_RaceOnlyByInterleaving ==
    (ThreadsFinished /\ is_const(threads.name) /\ RegistryDisagrees)
       => threads.overlapped

\* The interleaving of the claim has happened: both threads are done, the
\* constant name is registered and the attribute is absent.
C17_Witness ==
    /\ ThreadsFinished
    /\ threads.overlapped
    /\ is_const(threads.name)
    /\ threads.name \in Registered(threads.cls)
    /\ getattr(threads.cls, threads.name) = Absent

\* The other disagreement of the claim: the attribute is present and the
\* constant name is unregistered.
C17_WitnessUnregistered ==
    /\ ThreadsFinished
    /\ threads.overlapped
    /\ is_const(threads.name)
    /\ threads.name \notin Registered(threads.cls)
    /\ getattr(threads.cls, threads.name) # Absent

====
